---- MODULE Spec2Model ----
\* Model of app/page.tsx: the Page component (mirror of the notes collection,
\* selection, search session), the NoteDetail component (draft buffer) and the
\* two external collaborators it talks to (the document store and the auth
\* provider).  Strings are sequences of characters so that trim, toLowerCase
\* and includes are computed, not assumed; a Hangul character is written as
\* its romanised name ("sae" for U+C0C8) and is one element of the sequence.
EXTENDS Integers, Sequences, FiniteSets, TLC

\* ---------------------------------------------------------------- bounds
MaxIds == 2            \* document ids the store hands out: 1..MaxIds
MaxClock == 2          \* the wall clock runs over 0..MaxClock ticks
MaxQueue == 1          \* snapshots waiting for delivery to the listener
MaxPending == 1        \* addDoc calls in flight at once
MaxSearchSteps == 6    \* user actions on the search session in one run

\* ------------------------------------------------------- program constants
TicksPerSecond == 2    \* formatKoreanDateTime drops everything below a second
RecentLimit == 10      \* .slice(0, 10) in handleSearch

\* ----------------------------------------------------------------- strings
WhiteSpace == {" "}

Str0 == <<>>

RECURSIVE TrimStart(_)
TrimStart(s) ==
    IF s # <<>> /\ Head(s) \in WhiteSpace THEN TrimStart(Tail(s)) ELSE s

RECURSIVE TrimEnd(_)
TrimEnd(s) ==
    IF s # <<>> /\ s[Len(s)] \in WhiteSpace
    THEN TrimEnd(SubSeq(s, 1, Len(s) - 1))
    ELSE s

\* String.prototype.trim
Trim(s) == TrimEnd(TrimStart(s))

LowerChar(c) ==
    CASE c = "X" -> "x"
      [] c = "S" -> "s"
      [] c = "T" -> "t"
      [] OTHER -> c

\* String.prototype.toLowerCase
ToLowerCase(s) == [i \in 1..Len(s) |-> LowerChar(s[i])]

\* String.prototype.includes
Includes(s, q) ==
    \E i \in 0..(Len(s) - Len(q)) : SubSeq(s, i + 1, i + Len(q)) = q

\* the two fixed titles of the program
NewNoteTitle == <<"sae", " ", "me", "mo">>
UntitledTitle == <<"je", "mok", " ", "eop", "eum">>

initialRecentSearches ==
    << <<"n", "o", "t", "e">>, <<"n", "o", "t">>, <<"n", "o">>, <<"n">>,
       <<"mil">>, <<"mi">>, <<"o">>, <<"ieung">>, <<"mieum">> >>

\* formatKoreanDateTime: a clock reading to its display string, which is the
\* reading truncated to the second (year .. second, no milliseconds).  The
\* string is represented by the second it denotes.
formatKoreanDateTime(date) == date \div TicksPerSecond

\* the empty display string that stands in for a missing stamp
NoStamp == -1

\* ------------------------------------------------------------------- state
VARIABLES
    user,            \* Page: the signed-in identity, <<>> or <<[email |-> ..]>>
    authLoading,     \* Page: TRUE until the first identity push
    allowedEmail,    \* NEXT_PUBLIC_ALLOWED_EMAIL, <<>> when not configured
    notes,           \* Page: the mirror
    selectedNote,    \* Page: <<>> or <<note>>
    searchQuery,     \* Page: the live input buffer
    searchType,      \* Page: the scope
    activeSearch,    \* Page: the last submitted term
    recentSearches,  \* Page: the recency list
    title,           \* NoteDetail: draft title
    content,         \* NoteDetail: draft content
    titleBold,       \* NoteDetail: title style toggle
    titleSize,       \* NoteDetail: title size
    titleColor,      \* NoteDetail: title colour
    store,           \* the notes collection, in orderBy("updatedAt","desc") order
    nextId,          \* next document id the store assigns
    now,             \* wall clock
    listening,       \* the onSnapshot listener is registered
    snapQueue,       \* snapshots pushed by the store, not yet delivered
    pendingCreates,  \* addDoc calls whose promise has not settled in the page
    lastWrite,       \* the remote write issued by the step just taken
    alert,           \* the notice raised by the step just taken
    confirmAnswer,   \* the answer to the confirm dialog of the step just taken
    searchSteps      \* search-session actions taken so far

vars == <<user, authLoading, allowedEmail, notes, selectedNote, searchQuery,
          searchType, activeSearch, recentSearches, title, content, titleBold,
          titleSize, titleColor, store, nextId, now, listening, snapQueue,
          pendingCreates, lastWrite, alert, confirmAnswer, searchSteps>>

searchVars == <<searchQuery, searchType, activeSearch, recentSearches>>
detailVars == <<title, content, titleBold, titleSize, titleColor>>
storeVars == <<store, nextId, snapQueue>>

NoWrite == [op |-> "none"]
NoAlert == ""
NoAnswer == ""

\* useState defaults of the title style (lines 173-175)
DefaultTitleSize == "md"
DefaultTitleColor == "#111827"

\* ----------------------------------------------------------------- helpers
\* `x ?? d` on an optional property of an object
OrDefault(obj, field, d) == IF field \in DOMAIN obj THEN obj[field] ELSE d

\* {...a, ...b}
Spread(a, b) ==
    [f \in (DOMAIN a) \cup (DOMAIN b) |-> IF f \in DOMAIN b THEN b[f] ELSE a[f]]

\* an optional property as a set of at most one value
Opt(obj, field) == IF field \in DOMAIN obj THEN {obj[field]} ELSE {}

\* loadedNotes.find((n) => n.id === id): <<>> or <<the first match>>
RECURSIVE Find(_, _)
Find(seq, id) ==
    IF seq = <<>> THEN <<>>
    ELSE IF Head(seq).id = id THEN <<Head(seq)>>
    ELSE Find(Tail(seq), id)

\* arr[0] ?? null
FirstOrNull(seq) == IF seq = <<>> THEN <<>> ELSE <<seq[1]>>

\* isAllowedUser (line 414)
\* isAllowedUser without the !!user.email conjunct of line 414
IsAllowed_AnySignedIn(u, allowed) ==
    /\ u # <<>>
    /\ (IF allowed # <<>> THEN u[1].email = allowed ELSE TRUE)

IsAllowed(u, allowed) ==
    /\ u # <<>>
    /\ u[1].email # <<>>
    /\ (IF allowed # <<>> THEN u[1].email = allowed ELSE TRUE)

isAllowedUser == IsAllowed(user, allowedEmail)

\* the main screen (lines 566-685) is rendered
AppVisible == ~authLoading /\ user # <<>> /\ isAllowedUser

\* ------------------------------------------------------------- NoteDetail
\* dependency list of the useEffect in NoteDetail (line 184)
DetailDeps(n) ==
    <<n.id, n.title, n.content, Opt(n, "titleBold"), Opt(n, "titleSize"),
      Opt(n, "titleColor")>>

\* NoteDetail state after the selection went from prev to next: mounted with
\* useState initial values, re-synchronised by the effect when a dependency
\* changed, kept otherwise; nothing is mounted without a selection.
DetailSync(prev, next) ==
    IF next = <<>> THEN
        /\ title' = Str0 /\ content' = Str0 /\ titleBold' = TRUE
        /\ titleSize' = DefaultTitleSize /\ titleColor' = DefaultTitleColor
    ELSE IF prev = <<>> \/ DetailDeps(prev[1]) # DetailDeps(next[1]) THEN
        /\ title' = next[1].title
        /\ content' = next[1].content
        /\ titleBold' = OrDefault(next[1], "titleBold", TRUE)
        /\ titleSize' = OrDefault(next[1], "titleSize", DefaultTitleSize)
        /\ titleColor' = OrDefault(next[1], "titleColor", DefaultTitleColor)
    ELSE
        UNCHANGED detailVars

NoOutput ==
    lastWrite' = NoWrite /\ alert' = NoAlert /\ confirmAnswer' = NoAnswer

\* -------------------------------------------------------------------- Init
Owner == <<"o", "@">>
Guest == <<"g", "@">>
Users == {<<[email |-> Owner]>>, <<[email |-> Guest]>>, <<[email |-> <<>>]>>}

Init ==
    /\ user = <<>>
    /\ authLoading = TRUE
    /\ allowedEmail \in {<<>>, Owner}
    /\ notes = <<>>
    /\ selectedNote = <<>>
    /\ searchQuery = Str0
    /\ searchType = "title+content"
    /\ activeSearch = Str0
    /\ recentSearches = initialRecentSearches
    /\ title = Str0 /\ content = Str0 /\ titleBold = TRUE
    /\ titleSize = DefaultTitleSize /\ titleColor = DefaultTitleColor
    /\ store = <<>>
    /\ nextId = 1
    /\ now = 0
    /\ listening = FALSE
    /\ snapQueue = <<>>
    /\ pendingCreates = <<>>
    /\ lastWrite = NoWrite
    /\ alert = NoAlert
    /\ confirmAnswer = NoAnswer
    /\ searchSteps = 0

\* ----------------------------------------------------------------- actions
\* the wall clock advances
Tick ==
    /\ now < MaxClock
    /\ now' = now + 1
    /\ NoOutput
    /\ UNCHANGED <<user, authLoading, allowedEmail, notes, selectedNote,
                   searchVars, detailVars, storeVars, listening,
                   pendingCreates, searchSteps>>

\* onAuthStateChanged callback (lines 407-410) followed by the subscription
\* effect it triggers (lines 417-449): the old listener is released, then the
\* mirror and selection are cleared for a denied identity, or a new listener
\* is registered, which receives the current collection as first snapshot.
AuthStateChanged(u) ==
    /\ u # user \/ authLoading
    /\ user' = u
    /\ authLoading' = FALSE
    /\ IF u = user THEN
          UNCHANGED <<notes, selectedNote, detailVars, listening, snapQueue>>
       ELSE IF ~IsAllowed(u, allowedEmail) THEN
          /\ notes' = <<>>
          /\ selectedNote' = <<>>
          /\ DetailSync(selectedNote, <<>>)
          /\ listening' = FALSE
          /\ snapQueue' = <<>>
       ELSE
          /\ listening' = TRUE
          /\ snapQueue' = <<store>>
          /\ UNCHANGED <<notes, selectedNote, detailVars>>
    /\ NoOutput
    /\ UNCHANGED <<allowedEmail, searchVars, store, nextId, now,
                   pendingCreates, searchSteps>>

\* snapshot.docs.map(...) (lines 427-436): only these five fields are copied
LoadNote(d) ==
    [id |-> d.id,
     title |-> OrDefault(d, "title", Str0),
     content |-> OrDefault(d, "content", Str0),
     createdAt |-> OrDefault(d, "createdAt", NoStamp),
     updatedAt |-> OrDefault(d, "updatedAt", NoStamp)]

\* the mapping applied to the documents in reverse order
LoadNotes_Reversed(docs) ==
    [i \in 1..Len(docs) |-> LoadNote(docs[Len(docs) + 1 - i])]

LoadNotes(docs) == [i \in 1..Len(docs) |-> LoadNote(docs[i])]

\* the updater without the fall-back to the first note
Reconcile_NoFallback(prev, loadedNotes) ==
    IF prev # <<>> THEN Find(loadedNotes, prev[1].id)
    ELSE FirstOrNull(loadedNotes)

\* the updater passed to setSelectedNote (lines 439-445)
Reconcile(prev, loadedNotes) ==
    IF prev # <<>> THEN
        LET stillExists == Find(loadedNotes, prev[1].id)
        IN  IF stillExists # <<>> THEN stillExists ELSE FirstOrNull(loadedNotes)
    ELSE FirstOrNull(loadedNotes)

\* onSnapshot callback (lines 426-446) on the oldest undelivered snapshot
OnSnapshot ==
    /\ listening
    /\ snapQueue # <<>>
    /\ LET loadedNotes == LoadNotes(Head(snapQueue))
           next == Reconcile(selectedNote, loadedNotes)
       IN  /\ notes' = loadedNotes
           /\ selectedNote' = next
           /\ DetailSync(selectedNote, next)
    /\ snapQueue' = Tail(snapQueue)
    /\ NoOutput
    /\ UNCHANGED <<user, authLoading, allowedEmail, searchVars, store, nextId,
                   now, listening, pendingCreates, searchSteps>>

\* ------------------------------------------------------------ the store
\* orderBy("updatedAt", "desc"); equal stamps are ordered by document id in the
\* same direction.  The store compares the display strings; their order is
\* taken here to be the order of the seconds they denote.
Before(a, b) ==
    \/ a.updatedAt > b.updatedAt
    \/ a.updatedAt = b.updatedAt /\ a.id > b.id

StoreRemove(docs, id) == SelectSeq(docs, LAMBDA d : d.id # id)

StoreInsert(docs, d) ==
    LET k == Cardinality({i \in 1..Len(docs) : Before(docs[i], d)})
    IN  SubSeq(docs, 1, k) \o <<d>> \o SubSeq(docs, k + 1, Len(docs))

\* the store pushes the whole collection to the listener on every change
Push(newStore) ==
    snapQueue' = IF listening /\ newStore # store
                 THEN Append(snapQueue, newStore)
                 ELSE snapQueue

\* room for the snapshot that a change of the collection to newStore pushes
CanPush(newStore) ==
    (listening /\ newStore # store) => Len(snapQueue) < MaxQueue

RemoveAt(seq, i) == SubSeq(seq, 1, i - 1) \o SubSeq(seq, i + 1, Len(seq))

\* -------------------------------------------------------- Page: handlers
\* filteredNotes with the query compared as typed (no toLowerCase on it)
FilteredNotes_QueryAsTyped(ns, active, type) ==
    IF active = Str0 THEN ns
    ELSE SelectSeq(ns, LAMBDA note :
             IF type = "title" THEN
                 Includes(ToLowerCase(note.title), active)
             ELSE IF type = "content" THEN
                 Includes(ToLowerCase(note.content), active)
             ELSE
                 \/ Includes(ToLowerCase(note.title), active)
                 \/ Includes(ToLowerCase(note.content), active))

\* filteredNotes (lines 451-466)
FilteredNotes(ns, active, type) ==
    IF active = Str0 THEN ns
    ELSE LET query == ToLowerCase(active)
         IN  SelectSeq(ns, LAMBDA note :
                 IF type = "title" THEN
                     Includes(ToLowerCase(note.title), query)
                 ELSE IF type = "content" THEN
                     Includes(ToLowerCase(note.content), query)
                 ELSE
                     \/ Includes(ToLowerCase(note.title), query)
                     \/ Includes(ToLowerCase(note.content), query))

filteredNotes == FilteredNotes(notes, activeSearch, searchType)

\* handleSelectNote (lines 489-491), from a row of the rendered list
HandleSelectNote(note) ==
    /\ AppVisible
    /\ selectedNote' = <<note>>
    /\ DetailSync(selectedNote, <<note>>)
    /\ NoOutput
    /\ UNCHANGED <<user, authLoading, allowedEmail, notes, searchVars,
                   storeVars, now, listening, pendingCreates, searchSteps>>

\* handleUpdateNote (lines 493-509): the write with its stamp, applied by the
\* store or rejected; updateDoc rejects a document that does not exist
\* handleUpdateNote whose catch block raises no alert
UpdateNote_NoAlert(id, data, origin, ok) ==
    LET formattedDate == formatKoreanDateTime(now)
        fields == Spread(data, [updatedAt |-> formattedDate])
        old == Find(store, id)
        newStore == IF ok
                    THEN StoreInsert(StoreRemove(store, id), Spread(old[1], fields))
                    ELSE store
    IN  /\ ok => old # <<>>
        /\ CanPush(newStore)
        /\ store' = newStore
        /\ Push(newStore)
        /\ lastWrite' = [op |-> "update", id |-> id, fields |-> fields,
                         origin |-> origin, ok |-> ok]
        /\ alert' = NoAlert
        /\ confirmAnswer' = NoAnswer

UpdateNote(id, data, origin, ok) ==
    LET formattedDate == formatKoreanDateTime(now)
        fields == Spread(data, [updatedAt |-> formattedDate])
        old == Find(store, id)
        newStore == IF ok
                    THEN StoreInsert(StoreRemove(store, id), Spread(old[1], fields))
                    ELSE store
    IN  /\ ok => old # <<>>
        /\ CanPush(newStore)
        /\ store' = newStore
        /\ Push(newStore)
        /\ lastWrite' = [op |-> "update", id |-> id, fields |-> fields,
                         origin |-> origin, ok |-> ok]
        /\ alert' = IF ok THEN NoAlert ELSE "update failed"
        /\ confirmAnswer' = NoAnswer

\* handleDelete that also drops the note from the mirror when the delete is
\* accepted
HandleDelete_RemovesLocally(confirmed, ok) ==
    /\ AppVisible
    /\ selectedNote # <<>>
    /\ LET id == selectedNote[1].id
           newStore == IF confirmed /\ ok THEN StoreRemove(store, id) ELSE store
       IN  /\ CanPush(newStore)
           /\ store' = newStore
           /\ Push(newStore)
           /\ notes' = IF confirmed /\ ok THEN StoreRemove(notes, id) ELSE notes
           /\ lastWrite' = IF confirmed
                           THEN [op |-> "delete", id |-> id, ok |-> ok]
                           ELSE NoWrite
           /\ alert' = IF confirmed /\ ~ok THEN "delete failed" ELSE NoAlert
           /\ confirmAnswer' = IF confirmed THEN "yes" ELSE "no"
    /\ UNCHANGED <<user, authLoading, allowedEmail, selectedNote,
                   searchVars, detailVars, nextId, now, listening,
                   pendingCreates, searchSteps>>

\* handleDelete without the confirm guard of line 513
HandleDelete_NoConfirm(confirmed, ok) ==
    /\ AppVisible
    /\ selectedNote # <<>>
    /\ LET id == selectedNote[1].id
           newStore == IF ok THEN StoreRemove(store, id) ELSE store
       IN  /\ CanPush(newStore)
           /\ store' = newStore
           /\ Push(newStore)
           /\ lastWrite' = [op |-> "delete", id |-> id, ok |-> ok]
           /\ alert' = IF ~ok THEN "delete failed" ELSE NoAlert
           /\ confirmAnswer' = IF confirmed THEN "yes" ELSE "no"
    /\ UNCHANGED <<user, authLoading, allowedEmail, notes, selectedNote,
                   searchVars, detailVars, nextId, now, listening,
                   pendingCreates, searchSteps>>

\* handleDelete (lines 511-520) on the selected note; deleteDoc of a missing
\* document succeeds
HandleDelete(confirmed, ok) ==
    /\ AppVisible
    /\ selectedNote # <<>>
    /\ LET id == selectedNote[1].id
           newStore == IF confirmed /\ ok THEN StoreRemove(store, id) ELSE store
       IN  /\ CanPush(newStore)
           /\ store' = newStore
           /\ Push(newStore)
           /\ lastWrite' = IF confirmed
                           THEN [op |-> "delete", id |-> id, ok |-> ok]
                           ELSE NoWrite
           /\ alert' = IF confirmed /\ ~ok THEN "delete failed" ELSE NoAlert
           /\ confirmAnswer' = IF confirmed THEN "yes" ELSE "no"
    /\ UNCHANGED <<user, authLoading, allowedEmail, notes, selectedNote,
                   searchVars, detailVars, nextId, now, listening,
                   pendingCreates, searchSteps>>

\* handleCreateNew up to its await (lines 522-532): the stamp is taken and
\* addDoc is issued; the store assigns the id and applies the write, or
\* rejects it
HandleCreateNew(ok) ==
    /\ AppVisible
    /\ Len(pendingCreates) < MaxPending
    /\ ok => nextId <= MaxIds
    /\ LET formattedDate == formatKoreanDateTime(now)
           fields == [title |-> NewNoteTitle, content |-> Str0,
                      createdAt |-> formattedDate, updatedAt |-> formattedDate]
           newStore == IF ok
                       THEN StoreInsert(store, Spread([id |-> nextId], fields))
                       ELSE store
       IN  /\ CanPush(newStore)
           /\ store' = newStore
           /\ Push(newStore)
           /\ nextId' = IF ok THEN nextId + 1 ELSE nextId
           /\ pendingCreates' = Append(pendingCreates,
                  [ok |-> ok, id |-> IF ok THEN nextId ELSE 0,
                   formattedDate |-> formattedDate])
           /\ lastWrite' = [op |-> "create", fields |-> fields, ok |-> ok]
    /\ alert' = NoAlert
    /\ confirmAnswer' = NoAnswer
    /\ UNCHANGED <<user, authLoading, allowedEmail, notes, selectedNote,
                   searchVars, detailVars, now, listening, searchSteps>>

\* the note handleCreateNew builds from the returned reference (lines 535-541)
CreatedNote(p) ==
    [id |-> p.id, title |-> NewNoteTitle, content |-> Str0,
     createdAt |-> p.formattedDate, updatedAt |-> p.formattedDate]

\* the continuation also putting the new note at the head of the mirror
CreateSettled_AddsToMirror(i) ==
    /\ i \in 1..Len(pendingCreates)
    /\ LET p == pendingCreates[i]
       IN  IF p.ok THEN
               /\ selectedNote' = <<CreatedNote(p)>>
               /\ DetailSync(selectedNote, <<CreatedNote(p)>>)
               /\ notes' = <<CreatedNote(p)>> \o notes
               /\ alert' = NoAlert
           ELSE
               /\ alert' = "create failed"
               /\ UNCHANGED <<selectedNote, detailVars, notes>>
    /\ pendingCreates' = RemoveAt(pendingCreates, i)
    /\ lastWrite' = NoWrite
    /\ confirmAnswer' = NoAnswer
    /\ UNCHANGED <<user, authLoading, allowedEmail, searchVars,
                   storeVars, now, listening, searchSteps>>

\* the continuation selecting the new note only when nothing is selected
CreateSettled_KeepsSelection(i) ==
    /\ i \in 1..Len(pendingCreates)
    /\ LET p == pendingCreates[i]
       IN  IF p.ok /\ selectedNote = <<>> THEN
               /\ selectedNote' = <<CreatedNote(p)>>
               /\ DetailSync(selectedNote, <<CreatedNote(p)>>)
               /\ alert' = NoAlert
           ELSE
               /\ alert' = IF p.ok THEN NoAlert ELSE "create failed"
               /\ UNCHANGED <<selectedNote, detailVars>>
    /\ pendingCreates' = RemoveAt(pendingCreates, i)
    /\ lastWrite' = NoWrite
    /\ confirmAnswer' = NoAnswer
    /\ UNCHANGED <<user, authLoading, allowedEmail, notes, searchVars,
                   storeVars, now, listening, searchSteps>>

\* handleCreateNew after its await (lines 533-545): the promise of the i-th
\* call in flight settles
CreateSettled(i) ==
    /\ i \in 1..Len(pendingCreates)
    /\ LET p == pendingCreates[i]
       IN  IF p.ok THEN
               /\ selectedNote' = <<CreatedNote(p)>>
               /\ DetailSync(selectedNote, <<CreatedNote(p)>>)
               /\ alert' = NoAlert
           ELSE
               /\ alert' = "create failed"
               /\ UNCHANGED <<selectedNote, detailVars>>
    /\ pendingCreates' = RemoveAt(pendingCreates, i)
    /\ lastWrite' = NoWrite
    /\ confirmAnswer' = NoAnswer
    /\ UNCHANGED <<user, authLoading, allowedEmail, notes, searchVars,
                   storeVars, now, listening, searchSteps>>

\* ---------------------------------------------------- NoteDetail: handlers
TitleInputs == {<<" ">>, <<" ", "a">>}
ContentInputs == {<<"b">>}

DetailVisible == AppVisible /\ selectedNote # <<>>

\* onChange of the title input (line 277)
SetTitle(v) ==
    /\ DetailVisible
    /\ title' = v
    /\ NoOutput
    /\ UNCHANGED <<user, authLoading, allowedEmail, notes, selectedNote,
                   searchVars, content, titleBold, titleSize, titleColor,
                   storeVars, now, listening, pendingCreates, searchSteps>>

\* onChange of the editor (line 309)
SetContent(v) ==
    /\ DetailVisible
    /\ content' = v
    /\ NoOutput
    /\ UNCHANGED <<user, authLoading, allowedEmail, notes, selectedNote,
                   searchVars, title, titleBold, titleSize, titleColor,
                   storeVars, now, listening, pendingCreates, searchSteps>>

\* the trimmed draft handed to onUpdate without the placeholder
TitleToCommit_NoPlaceholder(trimmed) == trimmed

\* what handleTitleBlur hands to onUpdate (line 189)
TitleToCommit(trimmed) == IF trimmed # Str0 THEN trimmed ELSE UntitledTitle

\* handleTitleBlur returns without a write (line 188)
TitleBlurSkips(draft, note) == Trim(draft) = note.title

\* handleTitleBlur (lines 186-190)
HandleTitleBlur(ok) ==
    /\ DetailVisible
    /\ LET note == selectedNote[1]
       IN  IF TitleBlurSkips(title, note) THEN
               /\ ok
               /\ NoOutput
               /\ UNCHANGED <<store, snapQueue>>
           ELSE
               UpdateNote(note.id, [title |-> TitleToCommit(Trim(title))],
                          "title", ok)
    /\ UNCHANGED <<user, authLoading, allowedEmail, notes, selectedNote,
                   searchVars, detailVars, nextId, now, listening,
                   pendingCreates, searchSteps>>

\* handleContentBlur returns without a write (line 193)
ContentBlurSkips(draft, note) == draft = note.content

\* handleContentBlur (lines 192-195)
HandleContentBlur(ok) ==
    /\ DetailVisible
    /\ LET note == selectedNote[1]
       IN  IF ContentBlurSkips(content, note) THEN
               /\ ok
               /\ NoOutput
               /\ UNCHANGED <<store, snapQueue>>
           ELSE
               UpdateNote(note.id, [content |-> content], "content", ok)
    /\ UNCHANGED <<user, authLoading, allowedEmail, notes, selectedNote,
                   searchVars, detailVars, nextId, now, listening,
                   pendingCreates, searchSteps>>

\* handleToggleTitleBold (lines 204-210)
HandleToggleTitleBold(ok) ==
    /\ DetailVisible
    /\ LET next == ~titleBold
       IN  /\ titleBold' = next
           /\ UpdateNote(selectedNote[1].id, [titleBold |-> next], "titleBold", ok)
    /\ UNCHANGED <<user, authLoading, allowedEmail, notes, selectedNote,
                   searchVars, title, content, titleSize, titleColor, nextId,
                   now, listening, pendingCreates, searchSteps>>

TitleSizes == {"sm", "lg"}
TitleColors == {"#ff0000"}

\* handleTitleSizeChange (lines 212-215)
HandleTitleSizeChange(size, ok) ==
    /\ DetailVisible
    /\ titleSize' = size
    /\ UpdateNote(selectedNote[1].id, [titleSize |-> size], "titleSize", ok)
    /\ UNCHANGED <<user, authLoading, allowedEmail, notes, selectedNote,
                   searchVars, title, content, titleBold, titleColor, nextId,
                   now, listening, pendingCreates, searchSteps>>

\* handleTitleColorChange (lines 217-220)
HandleTitleColorChange(color, ok) ==
    /\ DetailVisible
    /\ titleColor' = color
    /\ UpdateNote(selectedNote[1].id, [titleColor |-> color], "titleColor", ok)
    /\ UNCHANGED <<user, authLoading, allowedEmail, notes, selectedNote,
                   searchVars, title, content, titleBold, titleSize, nextId,
                   now, listening, pendingCreates, searchSteps>>

\* ------------------------------------------------- Page: search handlers
SearchTypes == {"title+content", "title", "content"}
QueryInputs == {<<>>, <<" ">>, <<"X">>, <<" ", "x">>}

SearchVisible == AppVisible /\ searchSteps < MaxSearchSteps

\* onSearchQueryChange = setSearchQuery (lines 74, 643)
SetSearchQuery(v) ==
    /\ SearchVisible
    /\ searchQuery' = v
    /\ searchSteps' = searchSteps + 1
    /\ NoOutput
    /\ UNCHANGED <<user, authLoading, allowedEmail, notes, selectedNote,
                   searchType, activeSearch, recentSearches, detailVars,
                   storeVars, now, listening, pendingCreates>>

\* onSearchTypeChange = setSearchType (lines 93, 645)
SetSearchType(v) ==
    /\ SearchVisible
    /\ searchType' = v
    /\ searchSteps' = searchSteps + 1
    /\ NoOutput
    /\ UNCHANGED <<user, authLoading, allowedEmail, notes, selectedNote,
                   searchQuery, activeSearch, recentSearches, detailVars,
                   storeVars, now, listening, pendingCreates>>

\* arr.slice(0, n)
Slice0(seq, n) == SubSeq(seq, 1, IF Len(seq) < n THEN Len(seq) ELSE n)

\* the updater without its slice
PushRecent_NoSlice(prev, term) ==
    <<term>> \o SelectSeq(prev, LAMBDA x : x # term)

\* the updater passed to setRecentSearches in handleSearch (lines 471-474)
PushRecent(prev, term) ==
    LET filtered == SelectSeq(prev, LAMBDA x : x # term)
    IN  Slice0(<<term>> \o filtered, RecentLimit)

\* handleSearch without its else branch: a blank query leaves the filter on
HandleSearch_NoElse ==
    /\ SearchVisible
    /\ IF Trim(searchQuery) # Str0 THEN
          /\ activeSearch' = Trim(searchQuery)
          /\ recentSearches' = PushRecent(recentSearches, Trim(searchQuery))
       ELSE
          UNCHANGED <<activeSearch, recentSearches>>
    /\ searchSteps' = searchSteps + 1
    /\ NoOutput
    /\ UNCHANGED <<user, authLoading, allowedEmail, notes, selectedNote,
                   searchQuery, searchType, detailVars, storeVars, now,
                   listening, pendingCreates>>

\* handleSearch (lines 468-478)
HandleSearch ==
    /\ SearchVisible
    /\ IF Trim(searchQuery) # Str0 THEN
          /\ activeSearch' = Trim(searchQuery)
          /\ recentSearches' = PushRecent(recentSearches, Trim(searchQuery))
       ELSE
          /\ activeSearch' = Str0
          /\ UNCHANGED recentSearches
    /\ searchSteps' = searchSteps + 1
    /\ NoOutput
    /\ UNCHANGED <<user, authLoading, allowedEmail, notes, selectedNote,
                   searchQuery, searchType, detailVars, storeVars, now,
                   listening, pendingCreates>>

\* handleRecentSearchClick (lines 480-483)
HandleRecentSearchClick(term) ==
    /\ SearchVisible
    /\ searchQuery' = term
    /\ activeSearch' = term
    /\ searchSteps' = searchSteps + 1
    /\ NoOutput
    /\ UNCHANGED <<user, authLoading, allowedEmail, notes, selectedNote,
                   searchType, recentSearches, detailVars, storeVars, now,
                   listening, pendingCreates>>

\* the updater with its comparison inverted
DropRecent_Inverted(prev, term) == SelectSeq(prev, LAMBDA x : x = term)

\* the updater passed to setRecentSearches in handleRemoveRecentSearch (486)
DropRecent(prev, term) == SelectSeq(prev, LAMBDA x : x # term)

\* handleRemoveRecentSearch (lines 485-487)
HandleRemoveRecentSearch(term) ==
    /\ SearchVisible
    /\ recentSearches' = DropRecent(recentSearches, term)
    /\ searchSteps' = searchSteps + 1
    /\ NoOutput
    /\ UNCHANGED <<user, authLoading, allowedEmail, notes, selectedNote,
                   searchQuery, searchType, activeSearch, detailVars,
                   storeVars, now, listening, pendingCreates>>

\* ---------------------------------------------------------- specifications
OwnerUser == <<[email |-> Owner]>>

\* identity pushes, snapshot delivery and the clock
Environment ==
    \/ Tick
    \/ OnSnapshot
    \/ \E i \in 1..MaxPending : CreateSettled(i)

\* the page's note operations
NoteOps ==
    \/ \E i \in 1..Len(filteredNotes) : HandleSelectNote(filteredNotes[i])
    \/ \E ok \in BOOLEAN : HandleCreateNew(ok)
    \/ \E confirmed, ok \in BOOLEAN : HandleDelete(confirmed, ok)
    \/ \E ok \in BOOLEAN : HandleToggleTitleBold(ok)

\* editing the draft buffer and committing it on blur
EditOps ==
    \/ \E v \in TitleInputs : SetTitle(v)
    \/ \E v \in ContentInputs : SetContent(v)
    \/ \E ok \in BOOLEAN : HandleTitleBlur(ok)
    \/ \E ok \in BOOLEAN : HandleContentBlur(ok)

\* synchronisation of mirror and selection, under every identity
Next ==
    \/ \E u \in Users \cup {<<>>} : AuthStateChanged(u)
    \/ Environment
    \/ NoteOps

Spec == Init /\ [][Next]_vars
\* the same operations with every queued snapshot eventually delivered to the
\* listener and every awaited addDoc eventually settled
SpecLive ==
    /\ Init
    /\ [][Next]_vars
    /\ WF_vars(OnSnapshot)
    /\ WF_vars(\E i \in 1..MaxPending : CreateSettled(i))


\* the draft buffer of the selected note, for the allow-listed identity
NextEdit ==
    \/ \E u \in {OwnerUser, <<>>} : AuthStateChanged(u)
    \/ Environment
    \/ \E i \in 1..Len(filteredNotes) : HandleSelectNote(filteredNotes[i])
    \/ \E ok \in BOOLEAN : HandleCreateNew(ok)
    \/ EditOps

SpecEdit == Init /\ [][NextEdit]_vars
\* the allow-listed identity is the configured one
InitOwner == Init /\ allowedEmail = Owner

\* every remote write, accepted or rejected, over an edited draft title
NextWrite ==
    \/ AuthStateChanged(OwnerUser)
    \/ OnSnapshot
    \/ \E i \in 1..MaxPending : CreateSettled(i)
    \/ NoteOps
    \/ \E v \in TitleInputs : SetTitle(v)
    \/ \E ok \in BOOLEAN : HandleTitleBlur(ok)

SpecWrite == InitOwner /\ [][NextWrite]_vars
\* the draft title against selections, snapshots and writes that change the
\* title, a style field or the stamp alone
NextDraft ==
    \/ AuthStateChanged(OwnerUser)
    \/ Environment
    \/ \E i \in 1..Len(filteredNotes) : HandleSelectNote(filteredNotes[i])
    \/ \E ok \in BOOLEAN : HandleCreateNew(ok)
    \/ \E v \in TitleInputs : SetTitle(v)
    \/ \E ok \in BOOLEAN : HandleTitleBlur(ok)
    \/ \E ok \in BOOLEAN : HandleToggleTitleBold(ok)

SpecDraft == InitOwner /\ [][NextDraft]_vars
\* the title style writes and the snapshots that follow them
NextStyle ==
    \/ AuthStateChanged(OwnerUser)
    \/ OnSnapshot
    \/ \E i \in 1..MaxPending : CreateSettled(i)
    \/ \E i \in 1..Len(filteredNotes) : HandleSelectNote(filteredNotes[i])
    \/ \E ok \in BOOLEAN : HandleCreateNew(ok)
    \/ \E ok \in BOOLEAN : HandleToggleTitleBold(ok)
    \/ \E size \in TitleSizes, ok \in BOOLEAN : HandleTitleSizeChange(size, ok)
    \/ \E color \in TitleColors, ok \in BOOLEAN :
           HandleTitleColorChange(color, ok)

SpecStyle == InitOwner /\ [][NextStyle]_vars




\* the search session over a mirror that snapshots have filled: the page of
\* the allow-listed identity, showing one of a few collections
SampleNote(id, t, c) ==
    [id |-> id, title |-> t, content |-> c, createdAt |-> 0, updatedAt |-> 0]

SampleMirrors ==
    { <<>>,
      << SampleNote(3, <<"X", "a">>, <<"b">>),
         SampleNote(2, <<"b">>, <<"b">>),
         SampleNote(1, <<"T", "o">>, <<"a", "x">>) >>,
      << SampleNote(2, <<"n", "o", "t", "e">>, <<"X">>),
         SampleNote(1, <<"x">>, <<"T">>) >> }

InitSearch ==
    /\ user = OwnerUser
    /\ authLoading = FALSE
    /\ allowedEmail = Owner
    /\ notes \in SampleMirrors
    /\ selectedNote = FirstOrNull(notes)
    /\ searchQuery = Str0
    /\ searchType = "title+content"
    /\ activeSearch = Str0
    /\ recentSearches = initialRecentSearches
    /\ title = (IF notes = <<>> THEN Str0 ELSE notes[1].title)
    /\ content = (IF notes = <<>> THEN Str0 ELSE notes[1].content)
    /\ titleBold = TRUE
    /\ titleSize = DefaultTitleSize /\ titleColor = DefaultTitleColor
    /\ store = notes
    /\ nextId = Len(notes) + 1
    /\ now = 0
    /\ listening = TRUE
    /\ snapQueue = <<>>
    /\ pendingCreates = <<>>
    /\ lastWrite = NoWrite
    /\ alert = NoAlert
    /\ confirmAnswer = NoAnswer
    /\ searchSteps = 0

NextSearch ==
    \/ \E v \in QueryInputs : SetSearchQuery(v)
    \/ \E v \in SearchTypes : SetSearchType(v)
    \/ HandleSearch
    \/ \E i \in 1..Len(recentSearches) : HandleRecentSearchClick(recentSearches[i])
    \/ \E i \in 1..Len(recentSearches) : HandleRemoveRecentSearch(recentSearches[i])

SpecSearch == InitSearch /\ [][NextSearch]_vars

\* =================================================================== claims
\* -------------------------------------------------------------------- sync
\* C1: when a snapshot is applied while a note is selected and its id occurs
\* in the pushed sequence, the selection afterwards equals the pushed entry
\* with that id, field for field.
C1_SelectionEqualsPushedEntry ==
    [][(/\ OnSnapshot
        /\ selectedNote # <<>>
        /\ Find(Head(snapQueue), selectedNote[1].id) # <<>>) =>
            selectedNote' = Find(Head(snapQueue), selectedNote[1].id)]_vars

\* C2: when a snapshot is applied and the selected id is absent from the
\* pushed sequence, or nothing is selected, the selection becomes the first
\* element of the pushed sequence, or none if the sequence is empty.
C2_SelectionFallsBackToFirst ==
    [][(/\ OnSnapshot
        /\ \/ selectedNote = <<>>
           \/ Find(Head(snapQueue), selectedNote[1].id) = <<>>) =>
            selectedNote' = FirstOrNull(Head(snapQueue))]_vars

\* C3: when an addDoc call that the store accepted with id X settles, the
\* selection is the note with id X, the default title, empty content and
\* createdAt equal to updatedAt, whatever was selected and whatever snapshots
\* were applied in between.
C3_CreateSelectsNewNote ==
    [][\A i \in 1..Len(pendingCreates) :
          (CreateSettled(i) /\ pendingCreates[i].ok) =>
              /\ selectedNote' # <<>>
              /\ selectedNote'[1].id = pendingCreates[i].id
              /\ selectedNote'[1].title = NewNoteTitle
              /\ selectedNote'[1].content = Str0
              /\ selectedNote'[1].createdAt = selectedNote'[1].updatedAt]_vars

\* a call has settled while another note was selected and before the
\* snapshot with the new note was applied: the selection is the newest id,
\* which the non-empty mirror does not hold yet
C3_Witness ==
    /\ pendingCreates = <<>>
    /\ notes # <<>>
    /\ selectedNote # <<>>
    /\ selectedNote[1].id = nextId - 1
    /\ Find(notes, selectedNote[1].id) = <<>>

\* C4: a title or content blur issues no update whose value for that field is
\* the value the selected note already has for it.
C4_NoUnchangedWrite ==
    (lastWrite.op = "update" /\ lastWrite.origin \in {"title", "content"}) =>
        /\ selectedNote # <<>>
        /\ lastWrite.fields[lastWrite.origin] # selectedNote[1][lastWrite.origin]

\* ------------------------------------------------------------------ search
\* C5: a submit leaves exactly one entry of the recency list that equals the
\* submitted term up to letter case, and that entry is the term as submitted,
\* at the front (so "X" then "x" leaves the single entry "x").
C5_SubmitDedupsIgnoringCase ==
    [][(HandleSearch /\ Trim(searchQuery) # Str0) =>
        LET term == Trim(searchQuery)
            same == {i \in 1..Len(recentSearches') :
                        ToLowerCase(recentSearches'[i]) = ToLowerCase(term)}
        IN  /\ Cardinality(same) = 1
            /\ recentSearches'[1] = term]_vars

\* C6: the recency list never holds more than 10 entries.
C6_RecentAtMostTen == Len(recentSearches) <= 10

\* the list is full and its last initial entry was pushed out by two new terms
C6_Witness ==
    /\ Len(recentSearches) = 10
    /\ recentSearches[1] = <<"x">>
    /\ recentSearches[2] = <<"X">>
    /\ \A i \in 1..Len(recentSearches) : recentSearches[i] # <<"mieum">>

\* C7: with a non-empty active term, the filtered view is the mirror
\* restricted, in mirror order, to the notes whose lowercased title (scope
\* title), lowercased content (scope content) or either of them (scope
\* title+content) contains the lowercased term.
C7_Matches(note, term, scope) ==
    LET inTitle == Includes(ToLowerCase(note.title), ToLowerCase(term))
        inContent == Includes(ToLowerCase(note.content), ToLowerCase(term))
    IN  CASE scope = "title" -> inTitle
          [] scope = "content" -> inContent
          [] scope = "title+content" -> inTitle \/ inContent

RECURSIVE C7_Restrict(_, _, _)
C7_Restrict(mirror, term, scope) ==
    IF mirror = <<>> THEN <<>>
    ELSE IF C7_Matches(Head(mirror), term, scope)
         THEN <<Head(mirror)>> \o C7_Restrict(Tail(mirror), term, scope)
         ELSE C7_Restrict(Tail(mirror), term, scope)

C7_FilteredIsRestriction ==
    activeSearch # Str0 =>
        filteredNotes = C7_Restrict(notes, activeSearch, searchType)

\* an upper-case term under scope content keeps one of three notes, the last
C7_Witness ==
    /\ activeSearch = <<"X">>
    /\ searchType = "content"
    /\ Len(notes) = 3
    /\ filteredNotes = <<notes[3]>>

\* C8: a submit of an empty or whitespace-only query empties the active term,
\* so that the filtered view is the whole mirror in its order, and leaves the
\* recency list as it was.
C8_BlankSubmitClears ==
    [][(HandleSearch /\ Trim(searchQuery) = Str0) =>
        /\ activeSearch' = Str0
        /\ FilteredNotes(notes', activeSearch', searchType') = notes'
        /\ recentSearches' = recentSearches]_vars

\* "x" was submitted, then a whitespace-only query, over a non-empty mirror
C8_Witness ==
    /\ recentSearches # <<>> /\ recentSearches[1] = <<"x">>
    /\ searchQuery = <<" ">>
    /\ activeSearch = Str0
    /\ notes # <<>>

\* C9: removing a term of the recency list removes that one entry, keeps the
\* others in order, and changes neither the active term, the input buffer, the
\* scope, the mirror nor the selection.
C9_RemoveExact ==
    [][\A i \in 1..Len(recentSearches) :
          HandleRemoveRecentSearch(recentSearches[i]) =>
              /\ recentSearches' = RemoveAt(recentSearches, i)
              /\ UNCHANGED <<activeSearch, searchQuery, searchType, notes,
                             selectedNote>>]_vars

\* the active term is no longer in the list: it was removed while active
C9_Witness ==
    /\ activeSearch = <<"x">>
    /\ \A i \in 1..Len(recentSearches) : recentSearches[i] # activeSearch
    /\ Len(recentSearches) = 9

\* C10: picking a recent term makes it the active term and the input buffer,
\* and moves it to the front of the recency list as a submit of it would.
C10_PickMovesToFront ==
    [][\A i \in 1..Len(recentSearches) :
          HandleRecentSearchClick(recentSearches[i]) =>
              /\ activeSearch' = recentSearches[i]
              /\ searchQuery' = recentSearches[i]
              /\ recentSearches' =
                     <<recentSearches[i]>> \o RemoveAt(recentSearches, i)]_vars

\* C11: a delete write is issued only by a step whose confirm dialog was
\* answered yes; a declined delete issues no write and leaves the store, the
\* mirror, the selection and the draft buffer as they were.
C11_DeleteOnlyAfterConfirm ==
    [][/\ lastWrite'.op = "delete" => confirmAnswer' = "yes"
       /\ confirmAnswer' = "no" =>
              /\ lastWrite' = NoWrite
              /\ UNCHANGED <<store, snapQueue, notes, selectedNote, title,
                             content>>]_vars

\* a delete was declined while the selected note is in the store and the mirror
C11_Witness ==
    /\ confirmAnswer = "no"
    /\ selectedNote # <<>>
    /\ Find(store, selectedNote[1].id) # <<>>
    /\ Find(notes, selectedNote[1].id) # <<>>

\* C12: a rejected create, update or delete (an update of an id the store no
\* longer holds is rejected) raises an alert, and the step that raises it
\* leaves the mirror, the selection and the draft title and content as they
\* were, changes nothing in the store and starts no further write.
C12_FailedWriteAlertsOnly ==
    [][/\ (lastWrite'.op \in {"update", "delete"} /\ ~lastWrite'.ok) =>
              alert' # NoAlert
       /\ (lastWrite'.op = "update" /\ Find(store, lastWrite'.id) = <<>>) =>
              alert' = "update failed"
       /\ \A i \in 1..Len(pendingCreates) :
              (CreateSettled(i) /\ ~pendingCreates[i].ok) =>
                  alert' = "create failed"
       /\ alert' # NoAlert =>
              /\ UNCHANGED <<notes, selectedNote, title, content, store,
                             snapQueue>>
              /\ Len(pendingCreates') <= Len(pendingCreates)
              /\ alert' = "create failed" => lastWrite' = NoWrite]_vars

\* an update of a note the store no longer holds was rejected while the draft
\* title differed from the selected note's
C12_Witness ==
    /\ alert = "update failed"
    /\ Find(store, lastWrite.id) = <<>>
    /\ selectedNote # <<>>
    /\ title # selectedNote[1].title

\* C13: with an allow-listed address configured the subscription is active
\* only for a signed-in identity with that address; with none configured every
\* signed-in identity, one without an email address included, has the
\* subscription active and the main screen shown.
C13_AccessPolicy ==
    /\ (allowedEmail # <<>> /\ listening) =>
           (user # <<>> /\ user[1].email = allowedEmail)
    /\ (allowedEmail = <<>> /\ user # <<>>) => (listening /\ AppVisible)

\* C13 (amended): the subscription is active, and the main screen shown,
\* exactly for a signed-in identity that has an email address which, when an
\* allow-listed address is configured, equals it; an identity without an email
\* address is denied also when none is configured.
C13_AccessNeedsEmail ==
    /\ listening <=>
           /\ user # <<>>
           /\ user[1].email # <<>>
           /\ allowedEmail # <<>> => user[1].email = allowedEmail
    /\ AppVisible <=> listening

\* an identity without an email address is signed in, none is configured
C13_Witness ==
    /\ allowedEmail = <<>>
    /\ ~authLoading
    /\ user = <<[email |-> <<>>]>>
    /\ ~listening
    /\ store # <<>>

\* C14: whenever the selected note changes in its id or in any persisted field
\* (title, content, createdAt, updatedAt, a style field), the draft title and
\* content become the selected note's title and content.
C14_DraftResetOnAnyChange ==
    [][(selectedNote' # <<>> /\ selectedNote' # selectedNote) =>
           /\ title' = selectedNote'[1].title
           /\ content' = selectedNote'[1].content]_vars

\* number of entries of seq with the id X
C15_Count(seq, X) == Cardinality({i \in 1..Len(seq) : seq[i].id = X})

\* the accepted create of X is in flight, or has returned and X is selected
C15_Created(X) ==
    \/ \E i \in 1..Len(pendingCreates) :
           pendingCreates[i].ok /\ pendingCreates[i].id = X
    \/ selectedNote # <<>> /\ selectedNote[1].id = X

\* C15: after a create was accepted with id X, the snapshot that brings X
\* into the mirror leaves the selection on the entry with id X and the mirror
\* with exactly one entry X, whether it is applied before or after the create
\* call returns.
C15_SnapshotSelectsCreated ==
    [][OnSnapshot =>
           \A X \in 1..MaxIds :
               (/\ C15_Created(X)
                /\ Find(notes, X) = <<>>
                /\ Find(Head(snapQueue), X) # <<>>) =>
                   /\ selectedNote' = Find(notes', X)
                   /\ C15_Count(notes', X) = 1]_vars

\* C15 (amended): a snapshot containing X that is applied after the create
\* call returned, while X is still the selection, leaves the selection on the
\* pushed entry X; one applied before the call returns reconciles the
\* selection it finds, and the return then selects X; in either order the
\* mirror never holds more than one entry X.
C15_CreatedSurvivesSnapshot ==
    [][/\ (/\ OnSnapshot
           /\ selectedNote # <<>>
           /\ Find(notes, selectedNote[1].id) = <<>>
           /\ Find(Head(snapQueue), selectedNote[1].id) # <<>>) =>
              /\ selectedNote' = Find(notes', selectedNote[1].id)
              /\ C15_Count(notes', selectedNote[1].id) = 1
       /\ (/\ OnSnapshot
           /\ selectedNote # <<>>
           /\ Find(Head(snapQueue), selectedNote[1].id) # <<>>) =>
              selectedNote'[1].id = selectedNote[1].id
       /\ \A i \in 1..Len(pendingCreates) :
              (CreateSettled(i) /\ pendingCreates[i].ok) =>
                  /\ selectedNote'[1].id = pendingCreates[i].id
                  /\ notes' = notes
       /\ \A X \in 1..MaxIds : C15_Count(notes', X) <= 1]_vars

\* the create call has returned and X is selected, the mirror does not hold X
\* yet, and the next snapshot to apply contains X
C15_Witness ==
    /\ selectedNote # <<>>
    /\ notes # <<>>
    /\ Find(notes, selectedNote[1].id) = <<>>
    /\ listening
    /\ snapQueue # <<>>
    /\ Find(Head(snapQueue), selectedNote[1].id) # <<>>

\* the ids of a sequence of notes or documents, in order
C16_Ids(seq) == [i \in 1..Len(seq) |-> seq[i].id]

\* C16: applying a snapshot makes the mirror as long as the pushed sequence
\* with the same ids in the same order; every other step leaves the order of
\* the mirror as it was (or leaves no entry at all).
C16_MirrorKeepsPushedOrder ==
    [][IF OnSnapshot
       THEN C16_Ids(notes') = C16_Ids(Head(snapQueue))
       ELSE C16_Ids(notes') = C16_Ids(notes) \/ notes' = <<>>]_vars

\* a snapshot was applied in which the older note comes first, having been
\* written last
C16_Witness ==
    /\ C16_Ids(notes) = <<1, 2>>
    /\ C16_Ids(store) = <<1, 2>>
    /\ snapQueue = <<>>
    /\ lastWrite = NoWrite

\* C17: the mirror changes only in a step that applies a snapshot; selecting,
\* committing a field, creating, deleting, identity changes and the search
\* operations leave it unchanged.
C17_MirrorChangedBySnapshotOnly ==
    [][notes' # notes => OnSnapshot]_vars

\* C17 (amended): the mirror changes only in a step that applies a snapshot or
\* in an identity change to signed-out or to an identity without access, which
\* empties it; an identity change to an identity with access and every other
\* operation leave it unchanged.
C17_MirrorChangedBySnapshotOrDenial ==
    [][/\ notes' # notes =>
              \/ OnSnapshot
              \/ /\ \E u \in Users \cup {<<>>} : AuthStateChanged(u)
                 /\ ~IsAllowed(user', allowedEmail)
                 /\ notes' = <<>>
       /\ (\E u \in Users : AuthStateChanged(u) /\ IsAllowed(u, allowedEmail))
              => notes' = notes]_vars

\* an identity without access is signed in over a store of two notes, and the
\* mirror is empty
C17_Witness ==
    /\ ~authLoading
    /\ user # <<>>
    /\ ~isAllowedUser
    /\ notes = <<>>
    /\ Len(store) = 2

\* the style fields of a note or document, each absent or present
C18_Style(n) == [f \in {"titleBold", "titleSize", "titleColor"} |-> Opt(n, f)]

\* C18: after a snapshot is applied, each mirror entry, and the reconciled
\* selection, carries the titleBold, titleSize and titleColor of the pushed
\* document with its id.
C18_StyleSurvivesSnapshot ==
    [][OnSnapshot =>
           /\ \A i \in 1..Len(notes') :
                  C18_Style(notes'[i]) = C18_Style(Head(snapQueue)[i])
           /\ selectedNote' # <<>> =>
                  C18_Style(selectedNote'[1]) =
                      C18_Style(Find(Head(snapQueue), selectedNote'[1].id)[1])]_vars

\* C19: a title write issued by the title blur never carries an empty or
\* whitespace-only title: a draft that trims to nothing is committed as the
\* placeholder, any other draft as its trimmed form.
C19_NoBlankTitleWrite ==
    (lastWrite.op = "update" /\ lastWrite.origin = "title") =>
        /\ Trim(lastWrite.fields.title) # Str0
        /\ lastWrite.fields.title =
               IF Trim(title) = Str0 THEN UntitledTitle ELSE Trim(title)

\* a whitespace-only draft was blurred and the placeholder was written
C19_Witness ==
    /\ lastWrite.op = "update"
    /\ lastWrite.origin = "title"
    /\ lastWrite.ok
    /\ title = <<" ">>
    /\ lastWrite.fields.title = UntitledTitle

\* C20: under fair delivery of snapshots, after a confirmed and accepted
\* delete of a note, eventually the mirror has no entry with its id and the
\* selection is not that note.
C20_DeletedNoteGoesAway ==
    \A id \in 1..MaxIds :
        (lastWrite = [op |-> "delete", id |-> id, ok |-> TRUE]) ~>
            (/\ Find(notes, id) = <<>>
             /\ selectedNote = <<>> \/ selectedNote[1].id # id)

\* C21: in every reachable state a non-empty mirror has a selected note; the
\* selection is none only when the mirror is empty.
C21_NonEmptyMirrorHasSelection ==
    notes # <<>> => selectedNote # <<>>

\* the selected note was deleted, the snapshot without it has been applied and
\* the selection has fallen back to the remaining entry
C21_Witness ==
    /\ nextId = 3
    /\ Len(store) = 1
    /\ notes = LoadNotes(store)
    /\ snapQueue = <<>>
    /\ pendingCreates = <<>>
    /\ selectedNote = <<notes[1]>>

\* C22: whenever the current identity is signed out or has no access, the
\* mirror is empty and nothing is selected, also when a create started while
\* signed in settles after the identity change.
C22_DeniedMeansEmpty ==
    ~isAllowedUser => (notes = <<>> /\ selectedNote = <<>>)
====
